---- MODULE Spec2Model ----
(***************************************************************************)
(* Model of ReBACH's figshare/Utils.py: the preserved-package lookup       *)
(* against the AP Trust registry, the JSON sorter, the bucket listing      *)
(* parser and the payload size estimator.                                  *)
(*                                                                         *)
(* Python strings are sequences of code points (naturals), so that         *)
(* substring tests, splitting and lexicographic ordering are computed.     *)
(***************************************************************************)
EXTENDS Integers, Sequences, FiniteSets, TLC

VARIABLES
    \* get_preserved_version_hash_and_size
    pc, retries, article_id, version_no, version_tag, tries, success, page,
    page_empty, result, raisedExc, log, sleeps,
    \* sorter_api_result on two orderings of one value, then json.dumps
    sPc, sInA, sInB, sOutA, sOutB, sJsonA, sJsonB,
    \* get_filenames_and_sizes_from_ls
    lsPc, ls, lsResult,
    \* calculate_payload_size and the functions it calls
    zPc, rootReadable, storageRoot, version_data, version_data0, tempDir, ioFail,
    fileExists, fileLen, version, article_files_size, version_ual_rdm_size,
    version_data_copy, version_data_copy_json, json_file_size, payload_size, zExc

lookupVars == <<pc, retries, article_id, version_no, version_tag, tries,
                success, page, page_empty, result, raisedExc, log, sleeps>>
sortVars == <<sPc, sInA, sInB, sOutA, sOutB, sJsonA, sJsonB>>
lsVars == <<lsPc, ls, lsResult>>
sizeVars == <<zPc, rootReadable, storageRoot, version_data, version_data0, tempDir,
              ioFail, fileExists, fileLen, version, article_files_size,
              version_ual_rdm_size, version_data_copy, version_data_copy_json,
              json_file_size, payload_size, zExc>>

vars == <<lookupVars, sortVars, lsVars, sizeVars>>

(***************************************************************************)
(* Bounds                                                                  *)
(***************************************************************************)
\* largest configured config['retries']
MaxRetries == 3
\* requests one call may issue before the model stops following it
MaxRequests == 4

(***************************************************************************)
(* Strings                                                                 *)
(***************************************************************************)
Ord == [c \in {"0", "1", "2", "3", "4", "7", "_", "a", "b", "c", "d", "p",
               "v", "/", " ", "\n", "'", "\"", ",", ":", "[", "]", "{", "}",
               "n", "u", "l", "i", "s", "z", "e", "o", "r", "t", "h", "N", "U", "A", "L", "R",
               "D", "M"} |->
         CASE c = "0" -> 48 [] c = "1" -> 49 [] c = "2" -> 50 [] c = "3" -> 51
           [] c = "4" -> 52 [] c = "7" -> 55 [] c = "_" -> 95 [] c = "a" -> 97
           [] c = "b" -> 98 [] c = "c" -> 99 [] c = "d" -> 100
           [] c = "p" -> 112 [] c = "v" -> 118 [] c = "/" -> 47
           [] c = " " -> 32 [] c = "\n" -> 10 [] c = "'" -> 39
           [] c = "\"" -> 34 [] c = "," -> 44 [] c = ":" -> 58
           [] c = "[" -> 91 [] c = "]" -> 93 [] c = "{" -> 123
           [] c = "}" -> 125 [] c = "n" -> 110 [] c = "u" -> 117
           [] c = "l" -> 108 [] c = "i" -> 105 [] c = "s" -> 115
           [] c = "z" -> 122 [] c = "e" -> 101 [] c = "o" -> 111
           [] c = "r" -> 114 [] c = "t" -> 116 [] c = "h" -> 104
           [] c = "N" -> 78 [] c = "U" -> 85 [] c = "A" -> 65 [] c = "L" -> 76
           [] c = "R" -> 82 [] c = "D" -> 68 [] c = "M" -> 77]

\* a string literal, written as a tuple of one-character strings
Lit(cs) == [i \in 1..Len(cs) |-> Ord[cs[i]]]

\* Python: sub in s
Contains(s, sub) ==
    \E i \in 1..(Len(s) - Len(sub) + 1) : SubSeq(s, i, i + Len(sub) - 1) = sub

\* Python: s.split(sep)[-1] and s.rsplit(sep, 1)[-1], sep one character
LastSegment(s, sep) ==
    LET cuts == {i \in 1..Len(s) : s[i] = sep}
        last == IF cuts = {} THEN 0 ELSE CHOOSE i \in cuts : \A j \in cuts : j <= i
    IN  SubSeq(s, last + 1, Len(s))

\* Python: str(n) for an int n >= 0
RECURSIVE StrInt(_)
StrInt(n) == IF n < 10 THEN <<48 + n>> ELSE StrInt(n \div 10) \o <<48 + (n % 10)>>

\* Python: s.zfill(2)
Zfill2(s) == IF Len(s) = 0 THEN <<48, 48>> ELSE IF Len(s) = 1 THEN <<48>> \o s ELSE s

\* Python: int(s) for a string of decimal digits
RECURSIVE IntOf(_)
IntOf(s) == IF Len(s) = 0 THEN 0
            ELSE 10 * IntOf(SubSeq(s, 1, Len(s) - 1)) + (s[Len(s)] - 48)

(***************************************************************************)
(* get_preserved_version_hash_and_size                                     *)
(***************************************************************************)
\* version_no as passed by the caller: an int, or a string
IntV(n) == [isStr |-> FALSE, n |-> n, s |-> <<>>]
StrV(s) == [isStr |-> TRUE, n |-> 0, s |-> s]

\* str(version_no)
StrVersion(v) == IF v.isStr THEN v.s ELSE StrInt(v.n)

\* int(version_no)
IntVersion(v) == IF v.isStr THEN IntOf(v.s) ELSE v.n

\* lines 99-104: the version tag
VersionTag(v) ==
    IF Contains(StrVersion(v), Lit(<<"v">>)) THEN v.s
    ELSE IF IntVersion(v) < 10 THEN Lit(<<"v">>) \o Zfill2(StrVersion(v))
    ELSE Lit(<<"v">>) \o StrVersion(v)

\* a record of the registry's results
Package(name, size) == [bag_name |-> name, payload_size |-> size]

\* line 122: the match test
Matches(package, id, tag) ==
    Contains(package.bag_name, StrInt(id)) /\ Contains(package.bag_name, tag)

\* a buggy scan: the last matching record wins
LastMatchIndex(results, id, tag) ==
    LET hits == {i \in 1..Len(results) : Matches(results[i], id, tag)}
    IN  IF hits = {} THEN 0 ELSE CHOOSE i \in hits : \A j \in hits : j <= i

\* lines 121-125: the scan of one page; the index of the record the loop
\* returns on, 0 when the loop runs to its end
FirstMatchIndex(results, id, tag) ==
    LET hits == {i \in 1..Len(results) : Matches(results[i], id, tag)}
    IN  IF hits = {} THEN 0 ELSE CHOOSE i \in hits : \A j \in hits : i <= j

\* lines 123-124: the result of a match
MatchResult(package) ==
    [hash |-> LastSegment(package.bag_name, Ord["_"]), size |-> package.payload_size]

\* lines 86-87: the default result
DefaultResult == [hash |-> <<>>, size |-> 0]

\* a buggy test: gives up one attempt early
RetriesExhaustedEarly(t, r) == t >= r

\* line 131: tries > retries, after the increment
RetriesExhausted(t, r) == t > r

\* what the registry can answer to one request
Response(kind, isNull, results) == [kind |-> kind, isNull |-> isNull, results |-> results]
Exc == Response("exc", FALSE, <<>>)
Non200 == Response("non200", FALSE, <<>>)
OkNull == Response("ok", TRUE, <<>>)
OkPage(results) == Response("ok", FALSE, results)

PkgA == Package(Lit(<<"p", "_", "4", "2", "_", "v", "0", "3", "_", "a", "b">>), 7)
PkgB == Package(Lit(<<"p", "_", "4", "2", "_", "v", "0", "3", "_", "c", "d">>), 3)
PkgC == Package(Lit(<<"p", "_", "4", "2", "_", "v", "1", "2", "_", "a", "a">>), 4)
PkgD == Package(Lit(<<"p", "_", "7", "_", "v", "0", "3", "_", "d", "d">>), 2)

\* the pages a registry may serve ('results' when it is a sequence)
Pages == {<<>>, <<PkgD>>, <<PkgD, PkgC>>, <<PkgD, PkgB, PkgA>>}

ArticleIds == {42, 7}
VersionNos == {IntV(3), IntV(12), StrV(Lit(<<"v", "0", "3">>))}

LookupInit ==
    /\ pc = "call"
    /\ retries \in 1..MaxRetries
    /\ article_id \in ArticleIds
    /\ version_no \in VersionNos
    /\ version_tag = <<>>
    /\ tries = 0
    /\ success = FALSE
    /\ page = 0
    /\ page_empty = FALSE
    /\ result = DefaultResult
    /\ raisedExc = 0
    /\ log = <<>>
    /\ sleeps = 0

LookupIdle ==
    /\ pc = "idle"
    /\ retries = 1
    /\ article_id = 0
    /\ version_no = IntV(0)
    /\ version_tag = <<>>
    /\ tries = 0
    /\ success = FALSE
    /\ page = 0
    /\ page_empty = FALSE
    /\ result = DefaultResult
    /\ raisedExc = 0
    /\ log = <<>>
    /\ sleeps = 0

\* lines 86-106
Call ==
    /\ pc = "call"
    /\ version_tag' = VersionTag(version_no)
    /\ tries' = 1
    /\ success' = FALSE
    /\ result' = DefaultResult
    /\ pc' = "outer"
    /\ UNCHANGED <<sortVars, lsVars, sizeVars>>
    /\ UNCHANGED <<retries, article_id, version_no, page, page_empty, raisedExc, log, sleeps>>

\* line 108, then lines 110-112 or line 135
OuterLoop ==
    /\ pc = "outer"
    /\ IF tries <= retries /\ ~success
       THEN /\ page_empty' = FALSE
            /\ page' = 1
            /\ pc' = "request"
       ELSE /\ pc' = "returned"
            /\ UNCHANGED <<page, page_empty>>
    /\ UNCHANGED <<sortVars, lsVars, sizeVars>>
    /\ UNCHANGED <<retries, article_id, version_no, version_tag, tries, success,
                   result, raisedExc, log, sleeps>>

Logged(resp) == Append(log, [page |-> page, resp |-> resp])

\* line 114 raises requests.exceptions.RequestException
RespException ==
    /\ pc = "request"
    /\ Len(log) < MaxRequests
    /\ log' = Logged(Exc)
    /\ pc' = "except"
    /\ UNCHANGED <<sortVars, lsVars, sizeVars>>
    /\ UNCHANGED <<retries, article_id, version_no, version_tag, tries, success,
                   page, page_empty, result, raisedExc, sleeps>>

\* lines 114-115 with status_code # 200: the inner loop goes round
RespNon200 ==
    /\ pc = "request"
    /\ Len(log) < MaxRequests
    /\ log' = Logged(Non200)
    /\ pc' = "request"
    /\ UNCHANGED <<sortVars, lsVars, sizeVars>>
    /\ UNCHANGED <<retries, article_id, version_no, version_tag, tries, success,
                   page, page_empty, result, raisedExc, sleeps>>

\* lines 114-119: status 200, 'results' is null
RespOkNull ==
    /\ pc = "request"
    /\ Len(log) < MaxRequests
    /\ log' = Logged(OkNull)
    /\ success' = TRUE
    /\ page_empty' = TRUE
    /\ pc' = "outer"
    /\ UNCHANGED <<sortVars, lsVars, sizeVars>>
    /\ UNCHANGED <<retries, article_id, version_no, version_tag, tries,
                   page, result, raisedExc, sleeps>>

\* lines 114-117, 120-127: status 200, 'results' is a sequence
RespOkPage ==
    /\ pc = "request"
    /\ Len(log) < MaxRequests
    /\ \E results \in Pages :
        LET m == FirstMatchIndex(results, article_id, version_tag) IN
        /\ log' = Logged(OkPage(results))
        /\ success' = TRUE
        /\ IF m # 0
           THEN /\ result' = MatchResult(results[m])
                /\ pc' = "returned"
                /\ page' = page
           ELSE /\ page' = page + 1
                /\ pc' = "request"
                /\ result' = result
    /\ UNCHANGED <<sortVars, lsVars, sizeVars>>
    /\ UNCHANGED <<retries, article_id, version_no, version_tag, tries,
                   page_empty, raisedExc, sleeps>>

\* lines 128-133
Except ==
    /\ pc = "except"
    /\ tries' = tries + 1
    /\ IF RetriesExhausted(tries + 1, retries)
       THEN /\ pc' = "raised"
            /\ raisedExc' = Len(log)
       ELSE /\ pc' = "sleep"
            /\ raisedExc' = raisedExc
    /\ UNCHANGED <<sortVars, lsVars, sizeVars>>
    /\ UNCHANGED <<retries, article_id, version_no, version_tag, success, page,
                   page_empty, result, log, sleeps>>

\* line 134
Sleep ==
    /\ pc = "sleep"
    /\ sleeps' = sleeps + 1
    /\ pc' = "outer"
    /\ UNCHANGED <<sortVars, lsVars, sizeVars>>
    /\ UNCHANGED <<retries, article_id, version_no, version_tag, tries, success,
                   page, page_empty, result, raisedExc, log>>

LookupNext ==
    \/ Call
    \/ OuterLoop
    \/ RespException
    \/ RespNon200
    \/ RespOkNull
    \/ RespOkPage
    \/ Except
    \/ Sleep

(***************************************************************************)
(* Claims about get_preserved_version_hash_and_size                        *)
(***************************************************************************)
Requests == Len(log)
Kind(i) == log[i].resp.kind
IsEmptyPage(resp) == resp.kind = "ok" /\ (resp.isNull \/ resp.results = <<>>)
PageMatches(resp) ==
    /\ resp.kind = "ok"
    /\ \E k \in 1..Len(resp.results) : Matches(resp.results[k], article_id, version_tag)
OkNoMatch(resp) == resp.kind = "ok" /\ ~resp.isNull /\ ~PageMatches(resp)
AllExc == \A i \in 1..Requests : Kind(i) = "exc"
CountKind(k) == Cardinality({i \in 1..Requests : Kind(i) = k})

\* C1: the call returns ("", 0) only if its last request was answered 200 with
\* an empty page and no record of the pass matched; a transport failure is
\* never turned into the not-found result.
C1_FailureNeverNotFound ==
    (pc = "returned" /\ result = DefaultResult) =>
        /\ Requests > 0
        /\ IsEmptyPage(log[Requests].resp)
        /\ \A i \in 1..Requests : ~PageMatches(log[i].resp)

\* C2: a non-200 response is a failed attempt of the retry policy: before the
\* next request it has consumed a try, and no call receives more than
\* `retries` non-200 responses.
C2_Non200IsFailedAttempt ==
    /\ pc = "request" => CountKind("non200") < tries
    /\ CountKind("non200") <= retries

\* C3: an empty page (results null or an empty sequence) with no earlier match
\* ends the scan: no request follows it, no sleep and no retry is consumed,
\* and the call returns ("", 0).
C3_EmptyPageEndsScan ==
    \A i \in 1..Requests :
        IsEmptyPage(log[i].resp) =>
            /\ i = Requests
            /\ pc \in {"outer", "returned"}
            /\ pc = "returned" => result = DefaultResult

\* C4: when every request raises a transport failure, exactly `retries`
\* requests are made, with one sleep between consecutive attempts and none
\* after the last, and the last attempt's exception propagates.
C4_RetryExhaustion ==
    (pc # "call" /\ AllExc) =>
        /\ Requests <= retries
        /\ pc # "returned"
        /\ pc \in {"outer", "request"} => sleeps = Requests
        /\ pc \in {"except", "sleep"} => sleeps = Requests - 1
        /\ pc = "sleep" => Requests < retries
        /\ Requests = retries => pc \in {"except", "raised"}
        /\ pc = "raised" =>
            /\ Requests = retries
            /\ sleeps = retries - 1
            /\ raisedExc = Requests

C4_Witness ==
    /\ pc = "raised"
    /\ AllExc
    /\ retries = 2
    /\ Requests = 2
    /\ sleeps = 1

\* C5: the first request is for page 1, page p+1 is requested only after page
\* p was answered 200 with no matching record, and the first matching record
\* in response order decides the result: the call returns (final '_' token of
\* its bag_name, its payload_size) and issues no further request.
C5_FirstMatchWins ==
    \A i \in 1..Requests :
        /\ i = 1 => log[i].page = 1
        /\ i > 1 =>
            /\ log[i].page >= 1
            /\ log[i].page <= log[i - 1].page + 1
            /\ log[i].page = log[i - 1].page + 1 => OkNoMatch(log[i - 1].resp)
        /\ PageMatches(log[i].resp) =>
            /\ i = Requests
            /\ pc = "returned"
            /\ \E k \in 1..Len(log[i].resp.results) :
                LET rs == log[i].resp.results IN
                /\ Matches(rs[k], article_id, version_tag)
                /\ \A j \in 1..(k - 1) : ~Matches(rs[j], article_id, version_tag)
                /\ result = [hash |-> LastSegment(rs[k].bag_name, Ord["_"]),
                             size |-> rs[k].payload_size]

C5_Witness ==
    /\ pc = "returned"
    /\ article_id = 42
    /\ version_no = IntV(3)
    /\ Requests = 2
    /\ log[1] = [page |-> 1, resp |-> OkPage(<<PkgD>>)]
    /\ log[2] = [page |-> 2, resp |-> OkPage(<<PkgD, PkgB, PkgA>>)]
    /\ result = [hash |-> Lit(<<"c", "d">>), size |-> 3]

(***************************************************************************)
(* JSON values                                                             *)
(*                                                                         *)
(* One record shape for every Python value: t is the type, n an int's      *)
(* value, s a str's value, items a list's elements or a dict's values, and *)
(* keys a dict's keys in insertion order (keys[i] maps to items[i]).       *)
(***************************************************************************)
Val(t, n, s, keys, items) == [t |-> t, n |-> n, s |-> s, keys |-> keys, items |-> items]
JInt(n) == Val("int", n, <<>>, <<>>, <<>>)
JStr(s) == Val("str", 0, s, <<>>, <<>>)
JNone == Val("none", 0, <<>>, <<>>, <<>>)
JList(items) == Val("list", 0, <<>>, <<>>, items)
JDict(keys, items) == Val("dict", 0, <<>>, keys, items)
\* the outcome of a call that raised TypeError
TypeError == Val("TypeError", 0, <<>>, <<>>, <<>>)

RECURSIVE Join(_, _)
\* Python: sep.join(parts)
Join(parts, sep) ==
    IF Len(parts) = 0 THEN <<>>
    ELSE IF Len(parts) = 1 THEN parts[1]
    ELSE parts[1] \o sep \o Join(Tail(parts), sep)

\* Python: a < b on str
StrLess(a, b) ==
    \E i \in 1..(Len(a) + 1) :
        /\ i <= Len(b)
        /\ \A j \in 1..(i - 1) : a[j] = b[j]
        /\ i = Len(a) + 1 \/ a[i] < b[i]

\* Python: x < y on tuples of str of one length
TupleLess(x, y) ==
    \E i \in 1..Len(x) :
        /\ \A j \in 1..(i - 1) : x[j] = y[j]
        /\ StrLess(x[i], y[i])

\* Python: sorted(), a stable sort; lt[i][j] is whether the sort key of
\* items[i] is less than that of items[j]
StableSort(items, lt) ==
    LET n == Len(items)
        place(i) == 1 + Cardinality({j \in 1..n : lt[j][i]})
                      + Cardinality({j \in 1..(i - 1) : ~lt[j][i] /\ ~lt[i][j]})
    IN  [p \in 1..n |-> items[CHOOSE i \in 1..n : place(i) = p]]

\* Python: sorted(set_of_str)
SortedStrs(S) ==
    LET place(x) == 1 + Cardinality({y \in S : StrLess(y, x)})
    IN  [p \in 1..Cardinality(S) |-> CHOOSE x \in S : place(x) = p]

RECURSIVE PyEq(_, _)
\* Python: a == b (a dict's key order does not count)
PyEq(a, b) ==
    /\ a.t = b.t
    /\ CASE a.t = "int" -> a.n = b.n
         [] a.t = "str" -> a.s = b.s
         [] a.t = "list" ->
                /\ Len(a.items) = Len(b.items)
                /\ \A i \in 1..Len(a.items) : PyEq(a.items[i], b.items[i])
         [] a.t = "dict" ->
                /\ Len(a.keys) = Len(b.keys)
                /\ \A i \in 1..Len(a.keys) :
                    \E j \in 1..Len(b.keys) :
                        b.keys[j] = a.keys[i] /\ PyEq(a.items[i], b.items[j])
         [] OTHER -> TRUE

\* first index at which two lists differ, 0 when one is a prefix of the other
FirstDiff(a, b) ==
    LET m == IF Len(a.items) < Len(b.items) THEN Len(a.items) ELSE Len(b.items)
        d == {i \in 1..m : ~PyEq(a.items[i], b.items[i])}
    IN  IF d = {} THEN 0 ELSE CHOOSE i \in d : \A j \in d : i <= j

RECURSIVE Comparable(_, _)
\* Python: a < b does not raise TypeError
Comparable(a, b) ==
    /\ a.t = b.t
    /\ CASE a.t = "int" -> TRUE
         [] a.t = "str" -> TRUE
         [] a.t = "list" ->
                LET i == FirstDiff(a, b)
                IN  i = 0 \/ Comparable(a.items[i], b.items[i])
         [] OTHER -> FALSE

RECURSIVE ValLess(_, _)
\* Python: a < b, for Comparable(a, b)
ValLess(a, b) ==
    CASE a.t = "int" -> a.n < b.n
      [] a.t = "str" -> StrLess(a.s, b.s)
      [] a.t = "list" ->
            LET i == FirstDiff(a, b)
            IN  IF i = 0 THEN Len(a.items) < Len(b.items)
                ELSE ValLess(a.items[i], b.items[i])
      [] OTHER -> FALSE

RECURSIVE Repr(_)
\* Python: repr(v)
Repr(v) ==
    CASE v.t = "int" -> StrInt(v.n)
      [] v.t = "str" -> Lit(<<"'">>) \o v.s \o Lit(<<"'">>)
      [] v.t = "none" -> Lit(<<"N", "o", "n", "e">>)
      [] v.t = "list" ->
            Lit(<<"[">>)
            \o Join([i \in 1..Len(v.items) |-> Repr(v.items[i])], Lit(<<",", " ">>))
            \o Lit(<<"]">>)
      [] v.t = "dict" ->
            Lit(<<"{">>)
            \o Join([i \in 1..Len(v.keys) |->
                        Lit(<<"'">>) \o v.keys[i] \o Lit(<<"'", ":", " ">>)
                        \o Repr(v.items[i])], Lit(<<",", " ">>))
            \o Lit(<<"}">>)

\* Python: str(v)
PyStr(v) == IF v.t = "str" THEN v.s ELSE Repr(v)

\* Python: d.get(k, '')
DictGet(d, k) ==
    IF \E i \in 1..Len(d.keys) : d.keys[i] = k
    THEN d.items[CHOOSE i \in 1..Len(d.keys) : d.keys[i] = k]
    ELSE JStr(<<>>)

\* lines 42-43: the sorted union of the keys of a list of dicts
UniqueDictsKeys(items) ==
    SortedStrs(UNION {{items[i].keys[j] : j \in 1..Len(items[i].keys)} : i \in 1..Len(items)})

\* lines 47-49: the sort key of one dict of the list
SortTuple(d, ks) == [i \in 1..Len(ks) |-> PyStr(DictGet(d, ks[i]))]

authors == Lit(<<"a", "u", "t", "h", "o", "r", "s">>)

RECURSIVE sorter_api_result(_)
\* lines 26-62
sorter_api_result(v) ==
    CASE v.t = "list" ->
            IF Len(v.items) # 0 /\ \A i \in 1..Len(v.items) : v.items[i].t = "dict"
            THEN LET ks == UniqueDictsKeys(v.items)
                     key == [i \in 1..Len(v.items) |-> SortTuple(v.items[i], ks)]
                     lt == [i \in 1..Len(key) |-> [j \in 1..Len(key) |->
                               TupleLess(key[i], key[j])]]
                 IN  JList(StableSort(v.items, lt))
            ELSE LET sub == [i \in 1..Len(v.items) |-> sorter_api_result(v.items[i])]
                 IN  IF \/ \E i \in 1..Len(sub) : sub[i].t = "TypeError"
                        \/ \E i, j \in 1..Len(sub) : i # j /\ ~Comparable(sub[i], sub[j])
                     THEN TypeError
                     ELSE JList(StableSort(sub, [i \in 1..Len(sub) |-> [j \in 1..Len(sub) |->
                                                      ValLess(sub[i], sub[j])]]))
      [] v.t = "dict" ->
            LET ks == SortedStrs({v.keys[i] : i \in 1..Len(v.keys)})
                sub == [i \in 1..Len(ks) |->
                          IF ks[i] = authors THEN DictGet(v, ks[i])
                          ELSE sorter_api_result(DictGet(v, ks[i]))]
            IN  IF \E i \in 1..Len(sub) : sub[i].t = "TypeError"
                THEN TypeError
                ELSE JDict(ks, sub)
      [] OTHER -> v

\* the newline and the indentation json.dumps(indent=4) writes at a depth
Indent(depth) == <<10>> \o [i \in 1..(4 * depth) |-> 32]

RECURSIVE Dumps(_, _)
\* line 281: json.dumps(v, indent=4); a dict is written in its own key order
Dumps(v, depth) ==
    CASE v.t = "int" -> StrInt(v.n)
      [] v.t = "str" -> Lit(<<"\"">>) \o v.s \o Lit(<<"\"">>)
      [] v.t = "none" -> Lit(<<"n", "u", "l", "l">>)
      [] v.t = "list" ->
            IF Len(v.items) = 0 THEN Lit(<<"[", "]">>)
            ELSE Lit(<<"[">>) \o Indent(depth + 1)
                 \o Join([i \in 1..Len(v.items) |-> Dumps(v.items[i], depth + 1)],
                         Lit(<<",">>) \o Indent(depth + 1))
                 \o Indent(depth) \o Lit(<<"]">>)
      [] v.t = "dict" ->
            IF Len(v.keys) = 0 THEN Lit(<<"{", "}">>)
            ELSE Lit(<<"{">>) \o Indent(depth + 1)
                 \o Join([i \in 1..Len(v.keys) |->
                            Lit(<<"\"">>) \o v.keys[i] \o Lit(<<"\"", ":", " ">>)
                            \o Dumps(v.items[i], depth + 1)],
                         Lit(<<",">>) \o Indent(depth + 1))
                 \o Indent(depth) \o Lit(<<"}">>)

\* the bijections of 1..n
Perms(n) == {f \in [1..n -> 1..n] : \A i, j \in 1..n : f[i] = f[j] => i = j}

RECURSIVE Reorderings(_)
\* every value structurally equal to v that differs from it in the key order
\* of dicts or the element order of lists, at any depth outside `authors`
Reorderings(v) ==
    IF v.t \notin {"list", "dict"} THEN {v}
    ELSE LET n == Len(v.items)
             R == [i \in 1..n |->
                     IF v.t = "dict" /\ v.keys[i] = authors THEN {v.items[i]}
                     ELSE Reorderings(v.items[i])]
             choices == {c \in [1..n -> UNION {R[i] : i \in 1..n}] :
                            \A i \in 1..n : c[i] \in R[i]}
         IN  {Val(v.t, 0, <<>>,
                  [i \in 1..Len(v.keys) |-> v.keys[f[i]]],
                  [i \in 1..n |-> c[f[i]]]) : f \in Perms(n), c \in choices}

ka == Lit(<<"a">>)
kb == Lit(<<"b">>)

\* the values the sorter is run on, each in every ordering
SortBases ==
    { JDict(<<ka, kb>>, <<JInt(1), JInt(2)>>),
      JList(<<JInt(2), JInt(1), JInt(3)>>),
      JDict(<<ka, kb>>, <<JList(<<JInt(2), JInt(1)>>), JStr(kb)>>),
      JList(<<JList(<<JInt(2), JInt(1)>>), JList(<<JInt(1), JInt(3)>>)>>),
      JDict(<<authors, kb>>, <<JList(<<JInt(2), JInt(1)>>), JList(<<JStr(kb), JStr(ka)>>)>>),
      JList(<<JDict(<<ka, kb>>, <<JInt(1), JInt(2)>>), JDict(<<ka, kb>>, <<JInt(0), JInt(3)>>)>>),
      JList(<<JDict(<<ka>>, <<JInt(1)>>), JDict(<<ka>>, <<JStr(StrInt(1))>>)>>),
      JList(<<JInt(1), JStr(ka)>>) }

SortInit ==
    /\ sPc = "call"
    /\ \E base \in SortBases :
        /\ sInA \in Reorderings(base)
        /\ sInB \in Reorderings(base)
    /\ sOutA = JNone
    /\ sOutB = JNone
    /\ sJsonA = <<>>
    /\ sJsonB = <<>>

SortIdle ==
    /\ sPc = "idle"
    /\ sInA = JNone
    /\ sInB = JNone
    /\ sOutA = JNone
    /\ sOutB = JNone
    /\ sJsonA = <<>>
    /\ sJsonB = <<>>

\* sorter_api_result on both orderings
Normalize ==
    /\ sPc = "call"
    /\ sOutA' = sorter_api_result(sInA)
    /\ sOutB' = sorter_api_result(sInB)
    /\ sPc' = IF sOutA'.t = "TypeError" \/ sOutB'.t = "TypeError" THEN "raised" ELSE "sorted"
    /\ UNCHANGED <<sInA, sInB, sJsonA, sJsonB>>
    /\ UNCHANGED <<lookupVars, lsVars, sizeVars>>

\* json.dumps(..., indent=4) of both results
Serialize ==
    /\ sPc = "sorted"
    /\ sJsonA' = Dumps(sOutA, 0)
    /\ sJsonB' = Dumps(sOutB, 0)
    /\ sPc' = "done"
    /\ UNCHANGED <<sInA, sInB, sOutA, sOutB>>
    /\ UNCHANGED <<lookupVars, lsVars, sizeVars>>

SortNext ==
    \/ Normalize
    \/ Serialize

\* C8: two structurally equal values that differ only in key order or element
\* order (outside `authors`) normalize to byte-identical serialized output,
\* and the sorter raises on one only if it raises on the other.
C8_OrderInsensitive ==
    /\ sPc = "raised" => sOutA.t = sOutB.t
    /\ sPc = "done" => sJsonA = sJsonB

(***************************************************************************)
(* get_filenames_and_sizes_from_ls                                         *)
(***************************************************************************)
RECURSIVE SplitLines(_)
\* Python: s.splitlines()
SplitLines(s) ==
    IF Len(s) = 0 THEN <<>>
    ELSE LET nl == {i \in 1..Len(s) : s[i] = Ord["\n"]}
         IN  IF nl = {} THEN <<s>>
             ELSE LET i == CHOOSE k \in nl : \A j \in nl : k <= j
                  IN  <<SubSeq(s, 1, i - 1)>> \o SplitLines(SubSeq(s, i + 1, Len(s)))

IsSpace(c) == c \in {Ord[" "], Ord["\n"]}

RECURSIVE SplitWords(_)
\* Python: s.split()
SplitWords(s) ==
    IF Len(s) = 0 THEN <<>>
    ELSE IF IsSpace(s[1]) THEN SplitWords(Tail(s))
    ELSE LET sp == {i \in 1..Len(s) : IsSpace(s[i])}
         IN  IF sp = {} THEN <<s>>
             ELSE LET i == CHOOSE k \in sp : \A j \in sp : k <= j
                  IN  <<SubSeq(s, 1, i - 1)>> \o SplitWords(SubSeq(s, i + 1, Len(s)))

\* Python: seq[-2], an IndexError when the sequence has fewer than two items
HasSecondToLast(seq) == Len(seq) >= 2
SecondToLast(seq) == seq[Len(seq) - 1]

\* line 222-223: the filter of the comprehension
KeepsLine(line) == LastSegment(line, Ord["/"]) # <<>>

RECURSIVE ParseLines(_)
\* lines 222-223: the comprehension over the lines; raised when building a
\* pair raises IndexError
ParseLines(lines) ==
    IF Len(lines) = 0 THEN [raised |-> FALSE, pairs |-> <<>>]
    ELSE LET line == lines[1]
             rest == ParseLines(Tail(lines))
         IN  IF ~KeepsLine(line) THEN rest
             ELSE IF ~HasSecondToLast(SplitWords(line))
                  THEN [raised |-> TRUE, pairs |-> <<>>]
             ELSE IF rest.raised THEN rest
             ELSE [raised |-> FALSE,
                   pairs |-> <<<<LastSegment(line, Ord["/"]),
                                 SecondToLast(SplitWords(line))>>>> \o rest.pairs]

\* lines 221-223
get_filenames_and_sizes_from_ls(text) == ParseLines(SplitLines(text))

\* longest listing text
MaxLsLen == 3

LsAlphabet == {Ord["/"], Ord[" "], Ord["a"], Ord["7"], Ord["\n"]}

LsInit ==
    /\ lsPc = "call"
    /\ ls \in UNION {[1..n -> LsAlphabet] : n \in 0..MaxLsLen}
    /\ lsResult = <<>>

LsIdle ==
    /\ lsPc = "idle"
    /\ ls = <<>>
    /\ lsResult = <<>>

\* the call returns its list
LsReturn ==
    /\ lsPc = "call"
    /\ ~get_filenames_and_sizes_from_ls(ls).raised
    /\ lsResult' = get_filenames_and_sizes_from_ls(ls).pairs
    /\ lsPc' = "returned"
    /\ UNCHANGED ls
    /\ UNCHANGED <<lookupVars, sortVars, sizeVars>>

\* the call raises IndexError
LsRaise ==
    /\ lsPc = "call"
    /\ get_filenames_and_sizes_from_ls(ls).raised
    /\ lsPc' = "raised"
    /\ UNCHANGED <<ls, lsResult>>
    /\ UNCHANGED <<lookupVars, sortVars, sizeVars>>

LsNext ==
    \/ LsReturn
    \/ LsRaise

RECURSIVE ClaimedPairs(_)
\* the listing C9 describes: lines with an empty final segment, or without a
\* second-to-last token, are skipped
ClaimedPairs(lines) ==
    IF Len(lines) = 0 THEN <<>>
    ELSE LET line == lines[1]
             words == SplitWords(line)
         IN  IF LastSegment(line, Ord["/"]) = <<>> \/ Len(words) < 2
             THEN ClaimedPairs(Tail(lines))
             ELSE <<<<LastSegment(line, Ord["/"]), words[Len(words) - 1]>>>>
                  \o ClaimedPairs(Tail(lines))

\* C9: the parser never raises: every call returns, in line order, the pair
\* (final '/' segment, second-to-last token) of each line that has both, and
\* skips every other line.
C9_NeverFails ==
    lsPc # "call" =>
        /\ lsPc = "returned"
        /\ lsResult = ClaimedPairs(SplitLines(ls))

(***************************************************************************)
(* calculate_ual_rdm_size, calculate_json_file_size, calculate_payload_size*)
(***************************************************************************)
\* a directory entry: a file of some size, or a directory and its entries in
\* os.scandir order
Entry(name, isDir, size, kids) == [name |-> name, isDir |-> isDir, size |-> size, kids |-> kids]
File(name, size) == Entry(name, FALSE, size, <<>>)
Dir(name, kids) == Entry(name, TRUE, 0, kids)
\* the path "" that a level without a match leaves behind
NoPath == Entry(<<>>, FALSE, 0, <<>>)

\* lines 249-252, 253-256, 257-260: the first directory whose name contains
\* part, NoPath when the loop ends without a break
FirstDirContaining(kids, part) ==
    LET hits == {i \in 1..Len(kids) : kids[i].isDir /\ Contains(kids[i].name, part)}
    IN  IF hits = {} THEN NoPath ELSE kids[CHOOSE i \in hits : \A j \in hits : i <= j]

RECURSIVE SumSizes(_)
\* lines 261-263
SumSizes(kids) == IF Len(kids) = 0 THEN 0 ELSE kids[1].size + SumSizes(Tail(kids))

UAL_RDM == Lit(<<"U", "A", "L", "_", "R", "D", "M">>)

\* lines 242-265; os.scandir("") raises FileNotFoundError
calculate_ual_rdm_size(readable, root, id, ver) ==
    IF ~readable THEN [raised |-> FALSE, size |-> 0]
    ELSE LET article_dir == FirstDirContaining(root, StrInt(id)) IN
         IF article_dir = NoPath THEN [raised |-> TRUE, size |-> 0]
         ELSE LET article_version_dir == FirstDirContaining(article_dir.kids, ver) IN
         IF article_version_dir = NoPath THEN [raised |-> TRUE, size |-> 0]
         ELSE LET article_version_ual_rdm ==
                      FirstDirContaining(article_version_dir.kids, UAL_RDM) IN
         IF article_version_ual_rdm = NoPath THEN [raised |-> TRUE, size |-> 0]
         ELSE [raised |-> FALSE, size |-> SumSizes(article_version_ual_rdm.kids)]

\* lines 19-23: the dict with every 'null' and None value replaced by ""
standardize_api_result(d) ==
    JDict(d.keys,
          [i \in 1..Len(d.items) |->
              IF d.items[i] = JStr(Lit(<<"n", "u", "l", "l">>)) \/ d.items[i] = JNone
              THEN JStr(<<>>) ELSE d.items[i]])

\* lines 312-314
PayloadVersionTag(n) ==
    IF n > 9 THEN Lit(<<"v">>) \o StrInt(n) ELSE Lit(<<"v">>) \o Zfill2(StrInt(n))

kid == Lit(<<"i", "d">>)
kversion == Lit(<<"v", "e", "r", "s", "i", "o", "n">>)
ksize == Lit(<<"s", "i", "z", "e">>)
kdoi == Lit(<<"d", "o", "i">>)

\* the version records the estimator is run on
VersionRecords ==
    LET extras == {JNone, JStr(Lit(<<"n", "u", "l", "l">>)), JStr(ka),
                   JList(<<JStr(kb), JStr(ka)>>), JList(<<JInt(1), JStr(ka)>>)}
    IN  {JDict(<<kid, kversion, ksize>>, <<JInt(42), JInt(v), JInt(9)>>) : v \in {3, 12}}
        \cup {JDict(<<kversion, kdoi, kid, ksize>>, <<JInt(v), x, JInt(42), JInt(9)>>) :
                 v \in {3, 12}, x \in extras}

\* the contents of the curation storage root
StorageRoots ==
    LET ual == {Dir(UAL_RDM, fs) : fs \in {<<>>, <<File(ka, 5)>>, <<File(ka, 5), File(kb, 7)>>}}
        vkids == {<<>>, <<Dir(Lit(<<"d">>), <<>>)>>} \cup {<<File(kb, 1), u>> : u \in ual}
        ver == {Dir(Lit(<<"v", "1", "2">>), <<>>)}
               \cup {Dir(Lit(<<"v", "0", "3">>), k) : k \in vkids}
        akids == {<<>>} \cup {<<v>> : v \in ver}
        art == {Dir(Lit(<<"a", "_", "4", "2">>), k) : k \in akids}
    IN  {<<>>, <<File(Lit(<<"4", "2">>), 3)>>, <<Dir(Lit(<<"a", "_", "7">>), <<>>)>>}
        \cup {<<a>> : a \in art}

\* the I/O call of calculate_json_file_size the system fails, if any
IoFailures == {"none", "open", "write", "getsize"}

SizeInit ==
    /\ zPc = "call"
    /\ rootReadable \in BOOLEAN
    /\ storageRoot \in StorageRoots
    /\ version_data \in VersionRecords
    /\ version_data0 = version_data
    /\ tempDir \in {"missing", "readonly", "writable"}
    /\ ioFail \in IoFailures
    /\ fileExists = FALSE
    /\ fileLen = 0
    /\ version = <<>>
    /\ article_files_size = 0
    /\ version_ual_rdm_size = 0
    /\ version_data_copy = JNone
    /\ version_data_copy_json = <<>>
    /\ json_file_size = 0
    /\ payload_size = 0
    /\ zExc = "none"

SizeIdle ==
    /\ zPc = "idle"
    /\ rootReadable = FALSE
    /\ storageRoot = <<>>
    /\ version_data = JNone
    /\ version_data0 = JNone
    /\ tempDir = "missing"
    /\ ioFail = "none"
    /\ fileExists = FALSE
    /\ fileLen = 0
    /\ version = <<>>
    /\ article_files_size = 0
    /\ version_ual_rdm_size = 0
    /\ version_data_copy = JNone
    /\ version_data_copy_json = <<>>
    /\ json_file_size = 0
    /\ payload_size = 0
    /\ zExc = "none"

sizeEnv == <<rootReadable, storageRoot, version_data0, tempDir, ioFail>>

\* lines 309-314
PayloadCall ==
    /\ zPc = "call"
    /\ article_files_size' = DictGet(version_data, ksize).n
    /\ version' = PayloadVersionTag(DictGet(version_data, kversion).n)
    /\ zPc' = "ual"
    /\ UNCHANGED <<sizeEnv, version_data, fileExists, fileLen, version_ual_rdm_size,
                   version_data_copy, version_data_copy_json, json_file_size,
                   payload_size, zExc>>
    /\ UNCHANGED <<lookupVars, sortVars, lsVars>>

\* line 315
UalRdmSize ==
    /\ zPc = "ual"
    /\ LET r == calculate_ual_rdm_size(rootReadable, storageRoot,
                                       DictGet(version_data, kid).n, version)
       IN  IF r.raised
           THEN /\ zPc' = "raised"
                /\ zExc' = "FileNotFoundError"
                /\ UNCHANGED version_ual_rdm_size
           ELSE /\ zPc' = "standardize"
                /\ version_ual_rdm_size' = r.size
                /\ UNCHANGED zExc
    /\ UNCHANGED <<sizeEnv, version_data, fileExists, fileLen, version,
                   article_files_size, version_data_copy, version_data_copy_json,
                   json_file_size, payload_size>>
    /\ UNCHANGED <<lookupVars, sortVars, lsVars>>

\* line 279: standardize_api_result writes into the dict it is given and
\* returns that same dict
Standardize ==
    /\ zPc = "standardize"
    /\ version_data' = standardize_api_result(version_data)
    /\ version_data_copy' = version_data'
    /\ zPc' = "sort"
    /\ UNCHANGED <<sizeEnv, fileExists, fileLen, version, article_files_size,
                   version_ual_rdm_size, version_data_copy_json, json_file_size,
                   payload_size, zExc>>
    /\ UNCHANGED <<lookupVars, sortVars, lsVars>>

\* lines 280-285
SortAndDump ==
    /\ zPc = "sort"
    /\ LET sorted == sorter_api_result(version_data_copy)
       IN  IF sorted.t = "TypeError"
           THEN /\ zPc' = "raised"
                /\ zExc' = "TypeError"
                /\ UNCHANGED <<version_data_copy, version_data_copy_json>>
           ELSE /\ version_data_copy' = sorted
                /\ version_data_copy_json' = Dumps(sorted, 0)
                /\ zPc' = "tempdir"
                /\ UNCHANGED zExc
    /\ UNCHANGED <<sizeEnv, version_data, fileExists, fileLen, version,
                   article_files_size, version_ual_rdm_size, json_file_size,
                   payload_size>>
    /\ UNCHANGED <<lookupVars, sortVars, lsVars>>

\* lines 286-287
CheckTempDir ==
    /\ zPc = "tempdir"
    /\ zPc' = IF tempDir = "writable" THEN "open" ELSE "jsonreturn"
    /\ UNCHANGED <<sizeEnv, version_data, fileExists, fileLen, version,
                   article_files_size, version_ual_rdm_size, version_data_copy,
                   version_data_copy_json, json_file_size, payload_size, zExc>>
    /\ UNCHANGED <<lookupVars, sortVars, lsVars>>

\* line 288: open(filepath, 'w') creates the file
OpenFile ==
    /\ zPc = "open"
    /\ IF ioFail = "open"
       THEN /\ zPc' = "raised"
            /\ zExc' = "OSError"
            /\ UNCHANGED <<fileExists, fileLen>>
       ELSE /\ fileExists' = TRUE
            /\ fileLen' = 0
            /\ zPc' = "write"
            /\ UNCHANGED zExc
    /\ UNCHANGED <<sizeEnv, version_data, version, article_files_size,
                   version_ual_rdm_size, version_data_copy, version_data_copy_json,
                   json_file_size, payload_size>>
    /\ UNCHANGED <<lookupVars, sortVars, lsVars>>

\* line 289, and the close at the end of the with block
WriteFile ==
    /\ zPc = "write"
    /\ IF ioFail = "write"
       THEN /\ zPc' = "raised"
            /\ zExc' = "OSError"
            /\ UNCHANGED fileLen
       ELSE /\ fileLen' = Len(version_data_copy_json)
            /\ zPc' = "getsize"
            /\ UNCHANGED zExc
    /\ UNCHANGED <<sizeEnv, version_data, fileExists, version, article_files_size,
                   version_ual_rdm_size, version_data_copy, version_data_copy_json,
                   json_file_size, payload_size>>
    /\ UNCHANGED <<lookupVars, sortVars, lsVars>>

\* line 290
GetSize ==
    /\ zPc = "getsize"
    /\ IF ioFail = "getsize"
       THEN /\ zPc' = "raised"
            /\ zExc' = "OSError"
            /\ UNCHANGED json_file_size
       ELSE /\ json_file_size' = fileLen
            /\ zPc' = "remove"
            /\ UNCHANGED zExc
    /\ UNCHANGED <<sizeEnv, version_data, fileExists, fileLen, version,
                   article_files_size, version_ual_rdm_size, version_data_copy,
                   version_data_copy_json, payload_size>>
    /\ UNCHANGED <<lookupVars, sortVars, lsVars>>

\* line 291
RemoveFile ==
    /\ zPc = "remove"
    /\ fileExists' = FALSE
    /\ fileLen' = 0
    /\ zPc' = "jsonreturn"
    /\ UNCHANGED <<sizeEnv, version_data, version, article_files_size,
                   version_ual_rdm_size, version_data_copy, version_data_copy_json,
                   json_file_size, payload_size, zExc>>
    /\ UNCHANGED <<lookupVars, sortVars, lsVars>>

\* lines 293, 316-319
PayloadReturn ==
    /\ zPc = "jsonreturn"
    /\ payload_size' = version_ual_rdm_size + json_file_size + article_files_size
    /\ zPc' = "returned"
    /\ UNCHANGED <<sizeEnv, version_data, fileExists, fileLen, version,
                   article_files_size, version_ual_rdm_size, version_data_copy,
                   version_data_copy_json, json_file_size, zExc>>
    /\ UNCHANGED <<lookupVars, sortVars, lsVars>>

SizeNext ==
    \/ PayloadCall
    \/ UalRdmSize
    \/ Standardize
    \/ SortAndDump
    \/ CheckTempDir
    \/ OpenFile
    \/ WriteFile
    \/ GetSize
    \/ RemoveFile
    \/ PayloadReturn

\* the storage root is unreadable, or a level of article directory, version
\* directory, UAL_RDM directory is absent
LayoutMissing ==
    \/ ~rootReadable
    \/ ~\E a \in 1..Len(storageRoot) :
          /\ storageRoot[a].isDir
          /\ Contains(storageRoot[a].name, StrInt(DictGet(version_data0, kid).n))
          /\ \E v \in 1..Len(storageRoot[a].kids) :
                LET vd == storageRoot[a].kids[v] IN
                /\ vd.isDir
                /\ Contains(vd.name, version)
                /\ \E u \in 1..Len(vd.kids) :
                      vd.kids[u].isDir /\ Contains(vd.kids[u].name, UAL_RDM)

\* C6: a missing or unreadable directory layout never fails the estimate:
\* calculate_ual_rdm_size returns 0 without raising, and calculate_payload_size
\* returns exactly json_file_size + version_data['size'].
C6_LayoutNeverFails ==
    (zPc \notin {"call", "ual"} /\ LayoutMissing) =>
        /\ zExc # "FileNotFoundError"
        /\ version_ual_rdm_size = 0
        /\ zPc = "returned" =>
              payload_size = json_file_size + DictGet(version_data0, ksize).n

\* C7: the transient file does not exist after calculate_json_file_size,
\* whether the call returned or raised.
C7_TransientFileRemoved ==
    zPc \in {"jsonreturn", "returned", "raised"} => ~fileExists

\* C10: after calculate_payload_size returns, the caller's version_data has
\* exactly the keys and values it had before the call.
C10_VersionDataReadOnly ==
    zPc = "returned" => version_data = version_data0

Init == LookupInit /\ SortIdle /\ LsIdle /\ SizeIdle
Next == LookupNext
Spec == Init /\ [][Next]_vars

SortSpecInit == SortInit /\ LookupIdle /\ LsIdle /\ SizeIdle
SortSpec == SortSpecInit /\ [][SortNext]_vars

LsSpecInit == LsInit /\ LookupIdle /\ SortIdle /\ SizeIdle
LsSpec == LsSpecInit /\ [][LsNext]_vars

SizeSpecInit == SizeInit /\ LookupIdle /\ SortIdle /\ LsIdle
SizeSpec == SizeSpecInit /\ [][SizeNext]_vars
====
